---- MODULE Spec2Model ----
(***************************************************************************)
(* A model of subscription_manager/cert_sorter.py: ComplianceManager       *)
(* (load, _parse_server_status, _scan_entitlement_certs and the queries)   *)
(* and the observer fan-out of CertSorter.                                 *)
(*                                                                         *)
(* Python values are encoded as follows.  An optional value is a sequence  *)
(* of length at most one (None is <<>>).  A dict whose values are opaque   *)
(* payloads determined by the key (compliantProducts, partialStacks,       *)
(* unentitled_products, ...) is the set of its keys.  A dict that maps a   *)
(* product id to a list of certificates (future_products,                  *)
(* expired_products) is a function on Pids whose empty lists stand for     *)
(* absent keys (setdefault(...).append never leaves an empty list).        *)
(***************************************************************************)
EXTENDS Integers, Sequences, FiniteSets, TLC

\* ------------------------------------------------------------- bounds
MaxPid == 1
MaxTime == 2
MaxCerts == 2
MaxDay == 1
MaxChanges == 1
MaxObservers == 3

Pids == 1..MaxPid
StackIds == {"stack1"}

\* ---------------------------------------------------------- constants
FUTURE_SUBSCRIBED == "future_subscribed"
SUBSCRIBED == "subscribed"
NOT_SUBSCRIBED == "not_subscribed"
EXPIRED == "expired"
PARTIALLY_SUBSCRIBED == "partially_subscribed"

VALID == "valid"
INVALID == "invalid"
PARTIAL == "partial"
DISABLED == "disabled"
UNKNOWN == "unknown"

None == <<>>
Some(x) == <<x>>
\* the value of a dict key that is absent ("status" not in status)
NoKey == "<absent>"

Range(s) == {s[i] : i \in DOMAIN s}

\* --------------------------------------------------------- input sets
\* An ISO-8601 instant as the server sends it: a calendar day and the
\* second of that day.
IsoStamps == [day : 1..MaxDay, sec : {0, 86399}]

\* isodate.parse_date: the instant, in seconds, an ISO stamp denotes.
parse_date(iso) == iso.day * 86400 + iso.sec

StatusLabels == {NoKey, "", VALID, INVALID, DISABLED}
ReasonLists == {<<>>, <<"reason">>}

\* The entitlement certificates that may lie in the entitlement directory:
\* a list of covered product ids (the products 1..k) and a validity range
\* (over at instant 0, or not begun before MaxTime, or holding throughout).
ProductLists == {[i \in 1..k |-> i] : k \in Pids}
CertPool ==
    {c \in [products : ProductLists, begin : {0, MaxTime}, end : {0, MaxTime}] :
        c.begin <= c.end}

\* The answer of a server that has nothing to report about this consumer.
EmptySnapshot ==
    [compliantProducts |-> {}, partiallyCompliantProducts |-> {},
     partialStacks |-> {}, nonCompliantProducts |-> <<>>,
     status |-> VALID, compliantUntil |-> None, reasons |-> None]

NoCerts == [p \in Pids |-> <<>>]

VARIABLES
    \* the collaborators
    registered,        \* Identity.is_valid()
    sca,               \* utils.is_simple_content_access(...)
    product_dir,       \* ids of the product certificates in the product directory
    ent_certs,         \* EntitlementDirectory.list()
    now,               \* datetime.now(GMT()), the instant of the calls
    on_date,           \* the on_date the manager was constructed with, or None
    server,            \* the server's answer for this consumer
    reachable,         \* whether a fetch reaches the server
    cache,             \* the snapshot object the status source holds in memory
    \* ComplianceManager
    installed_products,
    unentitled_products,
    expired_products,
    partially_valid_products,
    valid_products,
    partial_stacks,
    future_products,
    reasons,
    supports_reasons,
    system_status,
    valid_entitlement_certs,
    has_compliant_until,   \* whether the attribute compliant_until exists yet
    compliant_until,
    status,
    \* bookkeeping of the calls made
    last_load,         \* the latest load(): how it went
    fresh,             \* no collaborator changed since the latest load()
    changes,           \* number of collaborator changes so far
    \* CertSorter: the observers
    callbacks,         \* self.callbacks
    in_notify,         \* a notify() is running
    copy_left,         \* the elements of copy(self.callbacks) still to be iterated
    invoked,           \* how often each observer was invoked in the latest notify()
    at_start,          \* the observers registered when the latest notify() started
    removed_pending,   \* the observers removed in the latest notify() before their turn
    remove_ret,        \* what the latest remove_callback returned, or None
    \* CertSorter: the watched directories
    disk,              \* what the three watched directories hold
    changed,           \* the watches whose directory changed since the latest poll
    check,             \* the latest force_cert_check(): how it went, or None
    \* StackingGroupSorter.__init__
    entitlements,      \* the list the sorter is constructed with
    position,          \* the index of the entitlement the loop is at
    groups,            \* self.groups
    stacking_groups    \* stacking id -> index in groups of its group

notifyVars == <<callbacks, in_notify, copy_left, invoked, at_start, removed_pending, remove_ret>>
watchVars == <<disk, changed, check>>
envVars == <<registered, sca, product_dir, ent_certs, now, on_date, server, reachable>>
viewVars == <<installed_products, unentitled_products, expired_products,
              partially_valid_products, valid_products, partial_stacks,
              future_products, reasons, supports_reasons, system_status,
              valid_entitlement_certs, has_compliant_until, compliant_until, status>>
loadVars == <<envVars, cache, viewVars, last_load, fresh, changes>>
groupVars == <<entitlements, position, groups, stacking_groups>>
vars == <<loadVars, notifyVars, watchVars, groupVars>>

Observers == 1..MaxObservers

\* CertSorter.__init__, line 381: no observer yet, no notify() running.
NotifyInit ==
    /\ callbacks = {}
    /\ in_notify = FALSE
    /\ copy_left = {}
    /\ invoked = [o \in Observers |-> 0]
    /\ at_start = {}
    /\ removed_pending = {}
    /\ remove_ret = None

\* ------------------------------------------------- ComplianceManager
\* The collaborators as one value, so that load() is a function of them.
Env ==
    [registered |-> registered, sca |-> sca, product_dir |-> product_dir,
     ent_certs |-> ent_certs, now |-> now, on_date |-> on_date, server |-> server,
     reachable |-> reachable, cache |-> cache]

\* What load() keeps of the object it runs on: the attributes it never resets.
Kept ==
    [has_compliant_until |-> has_compliant_until,
     compliant_until |-> compliant_until, status |-> status]

\* ComplianceManager.__init__: every attribute is None, compliant_until is
\* not an attribute yet.
Constructed == [has_compliant_until |-> FALSE, compliant_until |-> None, status |-> None]

\* is_registered() that takes every system for a registered one.
is_registeredAlways(e) == TRUE

\* is_registered(): the identity is valid.
is_registered(e) == e.registered

\* EntitlementStatusCache.load_status: a fetch answers with a new object
\* holding the server's answer, or None when the server is out of reach;
\* otherwise the source hands back the object it holds in memory.
load_status(e, src) ==
    IF src = "fetch"
    THEN (IF e.reachable THEN Some(e.server) ELSE None)
    ELSE e.cache

\* get_compliance_status(), lines 134-143: the answer of the status source.
get_compliance_status(e, src) == load_status(e, src)

\* A load() that also resets the valid-until instant.
ResetViewForgetsUntil(kept, e) ==
    [installed_products |-> e.product_dir,
     unentitled_products |-> {},
     expired_products |-> NoCerts,
     partially_valid_products |-> {},
     valid_products |-> {},
     partial_stacks |-> {},
     future_products |-> NoCerts,
     reasons |-> <<>>,
     supports_reasons |-> FALSE,
     system_status |-> UNKNOWN,
     valid_entitlement_certs |-> <<>>,
     has_compliant_until |-> kept.has_compliant_until,
     compliant_until |-> None,
     status |-> kept.status]

\* load(), lines 91-130: the inventory is read and every bucket is emptied.
ResetView(kept, e) ==
    [installed_products |-> e.product_dir,
     unentitled_products |-> {},
     expired_products |-> NoCerts,
     partially_valid_products |-> {},
     valid_products |-> {},
     partial_stacks |-> {},
     future_products |-> NoCerts,
     reasons |-> <<>>,
     supports_reasons |-> FALSE,
     system_status |-> UNKNOWN,
     valid_entitlement_certs |-> <<>>,
     has_compliant_until |-> kept.has_compliant_until,
     compliant_until |-> kept.compliant_until,
     status |-> kept.status]

\* _parse_server_status, lines 168-170: the reasons of the answer.
ServerReasons(st) == IF st.reasons # None THEN st.reasons[1] ELSE <<>>

\* _parse_server_status, lines 172-180: the status of the system.
DeriveSystemStatus(st, partially_valid, stacks, rs) ==
    IF st.status # NoKey /\ st.status # ""
    THEN st.status
    ELSE IF st.nonCompliantProducts # <<>>
    THEN INVALID
    ELSE IF partially_valid # {} \/ stacks # {} \/ rs # <<>>
    THEN PARTIAL
    ELSE UNKNOWN

\* _parse_server_status, lines 187-190.
CompliantUntil(st) ==
    IF st.compliantUntil # None THEN Some(parse_date(st.compliantUntil[1])) ELSE None

\* _parse_server_status, lines 201-208: the installed products the answer
\* does not mention are appended, in the order of the inventory, to the list
\* unentitled_pids, which is the answer's own nonCompliantProducts list.
RECURSIVE AppendInstalled(_, _, _, _, _)
AppendInstalled(pid, installed, valid, partially_valid, unentitled_pids) ==
    IF pid > MaxPid
    THEN unentitled_pids
    ELSE AppendInstalled(pid + 1, installed, valid, partially_valid,
             IF /\ pid \in installed
                /\ pid \notin valid
                /\ pid \notin partially_valid
                /\ pid \notin Range(unentitled_pids)
             THEN Append(unentitled_pids, pid)
             ELSE unentitled_pids)

\* Lines 194-208 without the reconciliation with the local inventory.
UnentitledPidsServerOnly(st, installed, is_sca) == st.nonCompliantProducts

\* _parse_server_status, lines 194-208.
UnentitledPids(st, installed, is_sca) ==
    IF ~is_sca
    THEN AppendInstalled(1, installed, st.compliantProducts,
                         st.partiallyCompliantProducts, st.nonCompliantProducts)
    ELSE st.nonCompliantProducts

\* A load() that files every product id the server sent, installed or not.
UnentitledProductsAll(unentitled_pids, dir) == Range(unentitled_pids)

\* _parse_server_status, lines 210-216: find_by_product finds the product
\* certificates of the product directory.
UnentitledProducts(unentitled_pids, dir) ==
    {pid \in Range(unentitled_pids) : pid \in dir}

\* Lines 248-253 subtracting the valid products only.
UnknownProductsKeepsPartial(installed, valid, partially_valid) ==
    {k \in installed : k \notin valid}

\* Lines 248-253 subtracting the partially valid products only.
UnknownProductsKeepsValid(installed, valid, partially_valid) ==
    {k \in installed : k \notin partially_valid}

\* _scan_entitlement_certs, lines 248-253.
UnknownProducts(installed, valid, partially_valid) ==
    {k \in installed : k \notin valid /\ k \notin partially_valid}

\* A scan at the date the manager was asked about.
ScanInstantOnDate(e) == IF e.on_date # None THEN e.on_date[1] ELSE e.now

\* _scan_entitlement_certs, line 256: certificates are compared with the
\* current instant, whatever on_date the manager was constructed with.
ScanInstant(e) == e.now

\* EntitlementCertificate.is_valid(): the range holds the current instant.
CertIsValid(c, t) == c.begin <= t /\ t <= c.end

\* _scan_entitlement_certs, line 269.
IsFuture(c, t) == c.begin > t

\* A scan that files every certificate that has begun, valid ones too.
IsExpiredNotFuture(c, t) == ~IsFuture(c, t)

\* _scan_entitlement_certs, line 272.
IsExpired(c, t) == ~IsFuture(c, t) /\ c.end < t

\* _scan_entitlement_certs, lines 258-277: the certificates filed under each
\* unknown product, in the order of the directory listing.
FutureProducts(certs, unknown, t) ==
    [p \in Pids |->
        SelectSeq(certs, LAMBDA c : p \in Range(c.products) /\ p \in unknown /\ IsFuture(c, t))]

ExpiredProducts(certs, unknown, t) ==
    [p \in Pids |->
        SelectSeq(certs, LAMBDA c : p \in Range(c.products) /\ p \in unknown /\ IsExpired(c, t))]

\* _scan_entitlement_certs, lines 260-261.
ValidEntitlementCerts(certs, t) == SelectSeq(certs, LAMBDA c : CertIsValid(c, t))

\* _parse_server_status, lines 157-218, for an answer st that is not None.
\* The status kept is the answer as the call leaves it.
ParseSnapshot(v, e, st) ==
    LET rs == ServerReasons(st)
        unentitled_pids == UnentitledPids(st, v.installed_products, e.sca)
        object == [st EXCEPT !.nonCompliantProducts = unentitled_pids]
        unknown == UnknownProducts(v.installed_products, st.compliantProducts,
                                   st.partiallyCompliantProducts)
    IN  [v EXCEPT
            !.valid_products = st.compliantProducts,
            !.partially_valid_products = st.partiallyCompliantProducts,
            !.partial_stacks = st.partialStacks,
            !.supports_reasons = (st.reasons # None),
            !.reasons = rs,
            !.system_status =
                DeriveSystemStatus(st, st.partiallyCompliantProducts, st.partialStacks, rs),
            !.has_compliant_until = TRUE,
            !.compliant_until = CompliantUntil(st),
            !.unentitled_products = UnentitledProducts(unentitled_pids, e.product_dir),
            !.future_products = FutureProducts(e.ent_certs, unknown, ScanInstant(e)),
            !.expired_products = ExpiredProducts(e.ent_certs, unknown, ScanInstant(e)),
            !.valid_entitlement_certs = ValidEntitlementCerts(e.ent_certs, e.now),
            !.status = Some(object)]

\* _parse_server_status, lines 145-220.  The result holds the view, the
\* number of calls made to the status source and the source's object.
ParseServerStatus(v, e, src) ==
    IF ~is_registered(e)
    THEN [view |-> v, calls |-> 0, snapshot |-> FALSE, cache |-> e.cache]
    ELSE LET st == get_compliance_status(e, src)
         IN  IF st = None
             THEN [view |-> [v EXCEPT !.status = None], calls |-> 1,
                   snapshot |-> FALSE, cache |-> e.cache]
             ELSE LET w == ParseSnapshot(v, e, st[1])
                  IN  [view |-> w, calls |-> 1, snapshot |-> TRUE, cache |-> w.status]

\* load(), lines 88-132.
LoadResult(kept, e, src) == ParseServerStatus(ResetView(kept, e), e, src)

\* get_system_status_id(), lines 279-280.
get_system_status_id == system_status

\* is_valid() that forgets the disabled status.
is_validOnlyValid == system_status = VALID

\* is_valid(), lines 309-314.
is_valid == system_status = VALID \/ system_status = DISABLED

\* get_status that looks into the valid bucket first.
get_statusValidFirst(product_id) ==
    IF ~is_registered(Env) THEN UNKNOWN
    ELSE IF product_id \in valid_products THEN SUBSCRIBED
    ELSE IF product_id \in partially_valid_products THEN PARTIALLY_SUBSCRIBED
    ELSE IF future_products[product_id] # <<>> THEN FUTURE_SUBSCRIBED
    ELSE IF expired_products[product_id] # <<>> THEN EXPIRED
    ELSE IF product_id \in unentitled_products THEN NOT_SUBSCRIBED
    ELSE UNKNOWN

\* get_status(product_id), lines 319-336.
get_status(product_id) ==
    IF ~is_registered(Env) THEN UNKNOWN
    ELSE IF product_id \in partially_valid_products THEN PARTIALLY_SUBSCRIBED
    ELSE IF product_id \in valid_products THEN SUBSCRIBED
    ELSE IF future_products[product_id] # <<>> THEN FUTURE_SUBSCRIBED
    ELSE IF expired_products[product_id] # <<>> THEN EXPIRED
    ELSE IF product_id \in unentitled_products THEN NOT_SUBSCRIBED
    ELSE UNKNOWN

\* The ComplianceView: the five buckets, the partial stacks, the status of
\* the system, the valid-until instant and the valid certificates.
View ==
    <<valid_products, partially_valid_products, expired_products, future_products,
      unentitled_products, partial_stacks, system_status, compliant_until,
      valid_entitlement_certs>>

\* The keys of the five buckets.
ValidKeys == valid_products
PartialKeys == partially_valid_products
ExpiredKeys == {p \in Pids : expired_products[p] # <<>>}
FutureKeys == {p \in Pids : future_products[p] # <<>>}
UnentitledKeys == unentitled_products

\* ------------------------------------------------------------ actions
\* The attributes of the manager become those of the record v.
SetView(v) ==
    /\ installed_products' = v.installed_products
    /\ unentitled_products' = v.unentitled_products
    /\ expired_products' = v.expired_products
    /\ partially_valid_products' = v.partially_valid_products
    /\ valid_products' = v.valid_products
    /\ partial_stacks' = v.partial_stacks
    /\ future_products' = v.future_products
    /\ reasons' = v.reasons
    /\ supports_reasons' = v.supports_reasons
    /\ system_status' = v.system_status
    /\ valid_entitlement_certs' = v.valid_entitlement_certs
    /\ has_compliant_until' = v.has_compliant_until
    /\ compliant_until' = v.compliant_until
    /\ status' = v.status

\* How a load() went: what it saw of the collaborators and what it called.
LoadRecord(e, src, r) ==
    [registered |-> e.registered, sca |-> e.sca, src |-> src,
     calls |-> r.calls, snapshot |-> r.snapshot]

\* The status source either fetches or hands back the object it holds.
Sources(e) == {"fetch"} \cup (IF e.registered /\ e.cache # None THEN {"cached"} ELSE {})

\* A call of load(), lines 88-132.
Load(src) ==
    /\ src \in Sources(Env)
    /\ LET r == LoadResult(Kept, Env, src)
       IN  /\ SetView(r.view)
           /\ cache' = r.cache
           /\ last_load' = LoadRecord(Env, src, r)
    /\ fresh' = TRUE
    /\ UNCHANGED <<envVars, changes, notifyVars, watchVars, groupVars>>

\* A collaborator changes between two calls.
Changed ==
    /\ changes < MaxChanges
    /\ changes' = changes + 1
    /\ fresh' = FALSE
    /\ UNCHANGED <<viewVars, cache, last_load, notifyVars, watchVars, groupVars>>

\* The consumer identity appears or disappears (register, unregister).
IdentityChange ==
    /\ registered' = ~registered
    /\ Changed
    /\ UNCHANGED <<sca, product_dir, ent_certs, now, on_date, server, reachable>>

\* The server becomes unreachable, or reachable again.
ServerReach ==
    /\ reachable' = ~reachable
    /\ Changed
    /\ UNCHANGED <<registered, sca, product_dir, ent_certs, now, on_date, server>>

\* The content access mode of the owner is switched, so that
\* is_simple_content_access (line 157) answers otherwise from now on.
ContentAccessChange ==
    /\ sca' = ~sca
    /\ Changed
    /\ UNCHANGED <<registered, product_dir, ent_certs, now, on_date, server, reachable>>

\* ------------------------------------------------- the systems checked
RECURSIVE SetToSeq(_)
SetToSeq(S) ==
    IF S = {} THEN <<>>
    ELSE LET x == CHOOSE y \in S : TRUE IN <<x>> \o SetToSeq(S \ {x})

\* The listings of an entitlement directory of at most MaxCerts certificates.
CertLists == {SetToSeq(S) : S \in {T \in SUBSET CertPool : Cardinality(T) <= MaxCerts}}

\* The nonCompliantProducts lists a server sends.
NonCompliantLists == {<<>>} \cup {<<p>> : p \in Pids}

\* Systems that exercise the buckets: any product lists in the answer, any
\* inventory, any entitlement certificates.
BucketEnvs ==
    {[registered |-> TRUE, sca |-> s, product_dir |-> d, ent_certs |-> l, now |-> 1,
      on_date |-> None, reachable |-> TRUE, cache |-> None,
      server |-> [EmptySnapshot EXCEPT !.compliantProducts = c,
                                       !.partiallyCompliantProducts = pc,
                                       !.nonCompliantProducts = nc]] :
        s \in BOOLEAN, d \in SUBSET Pids, l \in CertLists,
        c \in SUBSET Pids, pc \in SUBSET Pids, nc \in NonCompliantLists}

\* Systems that exercise the status of the system: any label, reasons,
\* stacks and compliantUntil in the answer, no entitlement certificate.
StatusEnvs ==
    {[registered |-> TRUE, sca |-> s, product_dir |-> d, ent_certs |-> <<>>, now |-> 1,
      on_date |-> None, reachable |-> TRUE, cache |-> None,
      server |-> [EmptySnapshot EXCEPT !.partiallyCompliantProducts = pc,
                                       !.nonCompliantProducts = nc,
                                       !.partialStacks = k,
                                       !.status = lb,
                                       !.compliantUntil = u,
                                       !.reasons = rs]] :
        s \in BOOLEAN, d \in SUBSET Pids,
        pc \in SUBSET Pids, nc \in NonCompliantLists, k \in SUBSET StackIds,
        lb \in StatusLabels, u \in {None},
        rs \in {None} \cup {Some(x) : x \in ReasonLists}}

\* Systems that exercise the valid-until instant: any compliantUntil.
UntilEnvs ==
    {[registered |-> TRUE, sca |-> FALSE, product_dir |-> d, ent_certs |-> <<>>, now |-> 1,
      on_date |-> None, reachable |-> TRUE, cache |-> None,
      server |-> [EmptySnapshot EXCEPT !.status = lb, !.compliantUntil = Some(i)]] :
        d \in SUBSET Pids, lb \in StatusLabels, i \in IsoStamps}

\* Systems the server declares invalid: any inventory, any entitlement
\* certificates, any compliant and non-compliant products in the answer.
InvalidEnvs ==
    {[registered |-> TRUE, sca |-> s, product_dir |-> d, ent_certs |-> l, now |-> 1,
      on_date |-> None, reachable |-> TRUE, cache |-> None,
      server |-> [EmptySnapshot EXCEPT !.compliantProducts = c,
                                       !.nonCompliantProducts = nc,
                                       !.status = INVALID]] :
        s \in BOOLEAN, d \in SUBSET Pids, l \in CertLists,
        c \in SUBSET Pids, nc \in NonCompliantLists}

\* Managers constructed for a date of their own: any inventory, at most
\* one entitlement certificate, a server with nothing to report.
OnDateEnvs ==
    {[registered |-> TRUE, sca |-> FALSE, product_dir |-> d, ent_certs |-> l, now |-> 1,
      on_date |-> Some(t), reachable |-> TRUE, cache |-> None,
      server |-> EmptySnapshot] :
        d \in SUBSET Pids, l \in {c \in CertLists : Len(c) <= 1}, t \in {0, MaxTime}}

\* Systems that are not registered when the manager is constructed.
UnregisteredEnvs ==
    {[registered |-> FALSE, sca |-> FALSE, product_dir |-> d, ent_certs |-> l, now |-> 1,
      on_date |-> None, reachable |-> TRUE, cache |-> None,
      server |-> [EmptySnapshot EXCEPT !.nonCompliantProducts = nc, !.status = lb]] :
        d \in SUBSET Pids, l \in {c \in CertLists : Len(c) <= 1},
        nc \in NonCompliantLists, lb \in StatusLabels}

\* The state after ComplianceManager.__init__ (lines 68-86), whose last
\* statement is the first load(), on the system e.
Constructs(e) ==
    /\ registered = e.registered
    /\ sca = e.sca
    /\ product_dir = e.product_dir
    /\ ent_certs = e.ent_certs
    /\ now = e.now
    /\ on_date = e.on_date
    /\ server = e.server
    /\ reachable = e.reachable
    /\ LET r == LoadResult(Constructed, e, "fetch")
       IN  /\ installed_products = r.view.installed_products
           /\ unentitled_products = r.view.unentitled_products
           /\ expired_products = r.view.expired_products
           /\ partially_valid_products = r.view.partially_valid_products
           /\ valid_products = r.view.valid_products
           /\ partial_stacks = r.view.partial_stacks
           /\ future_products = r.view.future_products
           /\ reasons = r.view.reasons
           /\ supports_reasons = r.view.supports_reasons
           /\ system_status = r.view.system_status
           /\ valid_entitlement_certs = r.view.valid_entitlement_certs
           /\ has_compliant_until = r.view.has_compliant_until
           /\ compliant_until = r.view.compliant_until
           /\ status = r.view.status
           /\ cache = r.cache
           /\ last_load = LoadRecord(e, "fetch", r)
    /\ fresh = TRUE
    /\ changes = 0
    /\ disk = [products |-> e.product_dir, certs |-> e.ent_certs, identity |-> e.registered]
    /\ changed = {}
    /\ check = None

\* No StackingGroupSorter is being constructed.
GroupsIdle ==
    /\ entitlements = <<>>
    /\ position = 1
    /\ groups = <<>>
    /\ stacking_groups = [k \in {} |-> 0]

Init ==
    /\ \E e \in BucketEnvs \cup StatusEnvs \cup UntilEnvs \cup InvalidEnvs \cup OnDateEnvs
                \cup UnregisteredEnvs :
          Constructs(e)
    /\ NotifyInit
    /\ GroupsIdle

Next ==
    \/ \E src \in {"fetch", "cached"} : Load(src)
    \/ IdentityChange
    \/ ServerReach

Spec == Init /\ [][Next]_vars

\* --------------------------------------- a switch of content access
\* Registered systems with any inventory and any product lists in the
\* answer, in either content access mode, without entitlement certificates.
AccessEnvs ==
    {[registered |-> TRUE, sca |-> s, product_dir |-> d, ent_certs |-> <<>>, now |-> 1,
      on_date |-> None, reachable |-> TRUE, cache |-> None,
      server |-> [EmptySnapshot EXCEPT !.compliantProducts = c,
                                       !.partiallyCompliantProducts = pc,
                                       !.nonCompliantProducts = nc]] :
        s \in BOOLEAN, d \in SUBSET Pids,
        c \in SUBSET Pids, pc \in SUBSET Pids, nc \in NonCompliantLists}

InitAccess ==
    /\ \E e \in AccessEnvs : Constructs(e)
    /\ NotifyInit
    /\ GroupsIdle

\* The manager of a system whose owner may switch the content access mode
\* between two calls of load().
NextAccess ==
    \/ \E src \in {"fetch", "cached"} : Load(src)
    \/ IdentityChange
    \/ ServerReach
    \/ ContentAccessChange

SpecAccess == InitAccess /\ [][NextAccess]_vars

\* ------------------------------------------------ CertSorter observers
\* What an observer does when it is invoked: nothing, or a call of
\* add_callback or remove_callback.
Bodies == {<<"none", 1>>} \cup {<<k, o>> : k \in {"add", "remove"}, o \in Observers}

\* add_callback, lines 419-420.
add_callback(cbs, cb) == cbs \cup {cb}

\* remove_callback, lines 422-427: the set after the call.
remove_callback(cbs, cb) == cbs \ {cb}

\* A remove_callback that reports success whatever the set holds.
remove_callback_returnsTrue(cbs, cb) == TRUE

\* remove_callback, lines 423-427: True when set.remove found cb, False
\* when it raised KeyError.
remove_callback_returns(cbs, cb) == cb \in cbs

\* The observer set after an observer ran the body b.
AfterBody(cbs, b) ==
    IF b[1] = "add" THEN add_callback(cbs, b[2])
    ELSE IF b[1] = "remove" THEN remove_callback(cbs, b[2])
    ELSE cbs

\* An iteration over the live set: what is registered and has not run yet.
IterationLeftLive(copied, live, done) == live \ done

\* notify(), line 416: the loop runs over copy(self.callbacks); copied is
\* what is left of the copy.
IterationLeft(copied, live, done) == copied

Done == {o \in Observers : invoked[o] > 0}

\* notify() is entered, line 416: the observer set is copied.
NotifyStart ==
    /\ ~in_notify
    /\ in_notify' = TRUE
    /\ copy_left' = callbacks
    /\ invoked' = [o \in Observers |-> 0]
    /\ at_start' = callbacks
    /\ removed_pending' = {}
    /\ check' = None
    /\ UNCHANGED <<callbacks, remove_ret, loadVars, disk, changed, groupVars>>

\* One turn of the loop of notify(), line 417: the observer cb is invoked
\* and runs the body b.
Invoke(cb, b) ==
    /\ in_notify
    /\ cb \in IterationLeft(copy_left, callbacks, Done)
    /\ copy_left' = copy_left \ {cb}
    /\ invoked' = [invoked EXCEPT ![cb] = @ + 1]
    /\ callbacks' = AfterBody(callbacks, b)
    /\ removed_pending' =
          IF b[1] = "remove" /\ b[2] \in callbacks /\ b[2] \in at_start /\ invoked'[b[2]] = 0
          THEN removed_pending \cup {b[2]}
          ELSE removed_pending
    /\ remove_ret' =
          IF b[1] = "remove" THEN Some(remove_callback_returns(callbacks, b[2])) ELSE remove_ret
    /\ UNCHANGED <<in_notify, at_start, loadVars, watchVars, groupVars>>

\* The loop of notify() is over.
NotifyEnd ==
    /\ in_notify
    /\ IterationLeft(copy_left, callbacks, Done) = {}
    /\ in_notify' = FALSE
    /\ UNCHANGED <<callbacks, copy_left, invoked, at_start, removed_pending, remove_ret,
                   loadVars, watchVars, groupVars>>

\* add_callback and remove_callback called between two notifications.
AddCallback(cb) ==
    /\ ~in_notify
    /\ callbacks' = add_callback(callbacks, cb)
    /\ UNCHANGED <<in_notify, copy_left, invoked, at_start, removed_pending, remove_ret,
                   loadVars, watchVars, groupVars>>

RemoveCallback(cb) ==
    /\ ~in_notify
    /\ callbacks' = remove_callback(callbacks, cb)
    /\ remove_ret' = Some(remove_callback_returns(callbacks, cb))
    /\ UNCHANGED <<in_notify, copy_left, invoked, at_start, removed_pending, loadVars, watchVars, groupVars>>

\* The sorter of a registered system whose server has nothing to report.
InitNotify ==
    /\ Constructs([registered |-> TRUE, sca |-> FALSE, product_dir |-> {}, ent_certs |-> <<>>,
                   now |-> 1, on_date |-> None, reachable |-> TRUE, cache |-> None,
                   server |-> EmptySnapshot])
    /\ NotifyInit
    /\ GroupsIdle

NextNotify ==
    \/ NotifyStart
    \/ \E cb \in Observers, b \in Bodies : Invoke(cb, b)
    \/ NotifyEnd
    \/ \E cb \in Observers : AddCallback(cb)
    \/ \E cb \in Observers : RemoveCallback(cb)

SpecNotify == InitNotify /\ [][NextNotify]_vars

\* ------------------------------------------ CertSorter change sources
\* The three watches of cert_dir_monitors, lines 383-393, in the order of
\* the dictionary.
WatchOrder == <<"product", "entitlement", "consumer">>

\* A watch whose callbacks reload before they refresh.
WatchCallbacksLoadFirst == <<"load", "changed">>

\* The callback list every DirectoryWatch is given, lines 385, 388, 391:
\* the on_*_changed method of its directory, then self.load.
WatchCallbacks == <<"changed", "load">>

\* The one product and the one certificate that come and go on disk.
DiskCert == [products |-> <<1>>, begin |-> 0, end |-> MaxTime]
DiskStates ==
    [products : {{}, {1}}, certs : {<<>>, <<DiskCert>>}, identity : BOOLEAN]

\* The watches whose directory differs between d and e.
Differing(d, e) ==
    {k \in Range(WatchOrder) :
        \/ k = "product" /\ d.products # e.products
        \/ k = "entitlement" /\ d.certs # e.certs
        \/ k = "consumer" /\ d.identity # e.identity}

\* on_prod_dir_changed (lines 437-442), on_ent_dir_changed (444-448) and
\* on_identity_changed (450-455): the collaborator reads its directory
\* again.
on_changed(e, d, k) ==
    IF k = "product" THEN [e EXCEPT !.product_dir = d.products]
    ELSE IF k = "entitlement" THEN [e EXCEPT !.ent_certs = d.certs]
    ELSE [e EXCEPT !.registered = d.identity]

\* One callback of the watch k, called on the sorter in the state st.
RunCallback(st, d, k, cb, src) ==
    IF cb = "changed"
    THEN [st EXCEPT !.env = on_changed(st.env, d, k)]
    ELSE LET from == IF src \in Sources(st.env) THEN src ELSE "fetch"
             r == LoadResult(st.kept, st.env, from)
         IN  [env |-> [st.env EXCEPT !.cache = r.cache],
              kept |-> [has_compliant_until |-> r.view.has_compliant_until,
                        compliant_until |-> r.view.compliant_until,
                        status |-> r.view.status],
              view |-> Some(r.view),
              loads |-> st.loads + 1,
              last |-> LoadRecord(st.env, from, r)]

\* DirectoryWatch.notify: the callbacks of the watch k, in their order.
DirectoryWatchNotify(st, d, k, src) ==
    RunCallback(RunCallback(st, d, k, WatchCallbacks[1], src), d, k, WatchCallbacks[2], src)

\* FilesystemWatcher.update: every watch whose directory changed runs its
\* callbacks; the watches that changed are returned.
RECURSIVE update(_, _, _, _, _)
update(i, st, d, ch, src) ==
    IF i > Len(WatchOrder) THEN st
    ELSE IF WatchOrder[i] \in ch
    THEN update(i + 1, DirectoryWatchNotify(st, d, WatchOrder[i], src), d, ch, src)
    ELSE update(i + 1, st, d, ch, src)

\* A force_cert_check that notifies whatever the poll found.
ShouldNotifyAlways(updated) == TRUE

\* force_cert_check, line 411: "if updated".
ShouldNotify(updated) == updated # {}

\* Files appear in or disappear from the watched directories.
DiskChange(d) ==
    /\ changes < MaxChanges
    /\ d # disk
    /\ disk' = d
    /\ changed' = changed \cup Differing(d, disk)
    /\ changes' = changes + 1
    /\ UNCHANGED <<envVars, cache, viewVars, last_load, fresh, check, notifyVars, groupVars>>

\* force_cert_check(), lines 409-412: the poll, with the refreshes and
\* loads it runs, and the entry into notify() when a watch changed.
ForceCertCheck(src) ==
    /\ ~in_notify
    /\ LET st == update(1, [env |-> Env, kept |-> Kept, view |-> None, loads |-> 0,
                            last |-> last_load], disk, changed, src)
       IN  /\ registered' = st.env.registered
           /\ product_dir' = st.env.product_dir
           /\ ent_certs' = st.env.ent_certs
           /\ cache' = st.env.cache
           /\ last_load' = st.last
           /\ IF st.view # None
              THEN SetView(st.view[1]) /\ fresh' = TRUE
              ELSE UNCHANGED <<viewVars, fresh>>
           /\ check' = Some([updated |-> changed, loads |-> st.loads, disk |-> disk,
                             registered |-> callbacks])
    /\ changed' = {}
    /\ invoked' = [o \in Observers |-> 0]
    /\ removed_pending' = {}
    /\ IF ShouldNotify(changed)
       THEN in_notify' = TRUE /\ copy_left' = callbacks /\ at_start' = callbacks
       ELSE in_notify' = FALSE /\ copy_left' = {} /\ at_start' = {}
    /\ UNCHANGED <<sca, now, on_date, server, reachable, changes, disk, callbacks, remove_ret,
                   groupVars>>

\* The sorter of a registered system whose directories are empty but for
\* the consumer certificate.
InitWatch ==
    /\ Constructs([registered |-> TRUE, sca |-> FALSE, product_dir |-> {}, ent_certs |-> <<>>,
                   now |-> 1, on_date |-> None, reachable |-> TRUE, cache |-> None,
                   server |-> EmptySnapshot])
    /\ NotifyInit
    /\ GroupsIdle

\* Observers that leave the observer set alone while they run.
NextWatch ==
    \/ \E d \in DiskStates : DiskChange(d)
    \/ \E src \in {"fetch", "cached"} : ForceCertCheck(src)
    \/ \E cb \in Observers : Invoke(cb, <<"none", 1>>)
    \/ NotifyEnd
    \/ \E cb \in Observers : AddCallback(cb)

SpecWatch == InitWatch /\ [][NextWatch]_vars

\* ------------------------------------------------ StackingGroupSorter
MaxEnts == 3

\* What _get_stacking_id returns, lines 502-506: the stacking id of the
\* order; "" stands for None and for an empty id alike.
StackingIds == {"", "stack1", "stack2"}

\* What _get_identity_name returns, lines 508-512.
OrderNames == {"A", "B"}

\* The lists of at most MaxEnts certificates; id tells the objects apart
\* and is the place of the certificate in the list.
EntitlementLists ==
    UNION {{[i \in 1..n |-> [id |-> i, stacking_id |-> f[i][1], name |-> f[i][2]]] :
               f \in [1..n -> StackingIds \X OrderNames]} : n \in 0..MaxEnts}

\* A sorter that takes every stacking id for one.
TruthyAlways(stacking_id) == TRUE

\* Line 468, "if stacking_id": neither None nor empty.
Truthy(stacking_id) == stacking_id # ""

\* EntitlementGroup.__init__, lines 489-492.
EntitlementGroup(entitlement, name) == [name |-> name, entitlements |-> <<entitlement>>]

\* EntitlementGroup.add_entitlement_cert, lines 494-495.
add_entitlement_cert(group, entitlement) ==
    [group EXCEPT !.entitlements = Append(@, entitlement)]

\* The dictionary stacking_groups with the key k set to v.
SetKey(dict, k, v) == [x \in DOMAIN dict \cup {k} |-> IF x = k THEN v ELSE dict[x]]

\* One turn of the loop of StackingGroupSorter.__init__, lines 466-479.
SortStep ==
    /\ position <= Len(entitlements)
    /\ LET entitlement == entitlements[position]
           stacking_id == entitlement.stacking_id
       IN  IF Truthy(stacking_id)
           THEN IF stacking_id \notin DOMAIN stacking_groups
                THEN /\ groups' = Append(groups, EntitlementGroup(entitlement, entitlement.name))
                     /\ stacking_groups' = SetKey(stacking_groups, stacking_id, Len(groups) + 1)
                ELSE /\ groups' = [groups EXCEPT ![stacking_groups[stacking_id]] =
                                       add_entitlement_cert(@, entitlement)]
                     /\ UNCHANGED stacking_groups
           ELSE /\ groups' = Append(groups, EntitlementGroup(entitlement, ""))
                /\ UNCHANGED stacking_groups
    /\ position' = position + 1
    /\ UNCHANGED <<entitlements, loadVars, notifyVars, watchVars>>

\* StackingGroupSorter.__init__ is entered with a list, lines 463-464.
InitGroups ==
    /\ Constructs([registered |-> FALSE, sca |-> FALSE, product_dir |-> {}, ent_certs |-> <<>>,
                   now |-> 1, on_date |-> None, reachable |-> TRUE, cache |-> None,
                   server |-> EmptySnapshot])
    /\ NotifyInit
    /\ entitlements \in EntitlementLists
    /\ position = 1
    /\ groups = <<>>
    /\ stacking_groups = [k \in {} |-> 0]

NextGroups == SortStep

SpecGroups == InitGroups /\ [][NextGroups]_vars

\* ------------------------------------------------------------- claims
ProductStatuses ==
    {FUTURE_SUBSCRIBED, SUBSCRIBED, NOT_SUBSCRIBED, EXPIRED, PARTIALLY_SUBSCRIBED}

\* In how many of the five buckets the product p is a key.
BucketCount(p) ==
    Cardinality({i \in 1..5 :
        p \in <<ValidKeys, PartialKeys, ExpiredKeys, FutureKeys, UnentitledKeys>>[i]})

\* A certificate of the entitlement directory that covers p.
Covers(c, p) == p \in Range(c.products)

ServerListsDisjoint ==
    /\ server.compliantProducts \cap server.partiallyCompliantProducts = {}
    /\ Range(server.nonCompliantProducts) \cap
           (server.compliantProducts \cup server.partiallyCompliantProducts) = {}

LoadNoSnapshot ==
    /\ registered
    /\ \E src \in {"fetch", "cached"} : Load(src)
    /\ last_load'.calls = 1
    /\ ~last_load'.snapshot

\* C2 as stated: a load() of a registered system that gets no snapshot
\* leaves the ComplianceView as it was before the call.
C2_PriorViewRetained == [][LoadNoSnapshot => View' = View]_vars

\* C2 as amended: a load() of a registered system that gets no snapshot
\* leaves the five buckets, the partial stacks and the valid certificates
\* empty and the system status UNKNOWN, whatever they were, and keeps only
\* the valid-until instant of before the call; so does every repetition.
C2_ViewResetUntilKept ==
    [][LoadNoSnapshot =>
          /\ valid_products' = {} /\ partially_valid_products' = {}
          /\ expired_products' = NoCerts /\ future_products' = NoCerts
          /\ unentitled_products' = {} /\ partial_stacks' = {}
          /\ valid_entitlement_certs' = <<>>
          /\ system_status' = UNKNOWN
          /\ compliant_until' = compliant_until]_vars

\* C2 witness: the latest load() of a registered system got no snapshot, and
\* an earlier load() had parsed one that carried a valid-until instant.
C2_Witness ==
    /\ fresh /\ registered
    /\ last_load.calls = 1 /\ ~last_load.snapshot
    /\ compliant_until # None

\* A step that is a second load() in succession: nothing changed since the
\* first, which parsed a snapshot, and the source answers as before (the
\* same object again, or a fetch after a fetch).
SecondLoad ==
    /\ fresh
    /\ last_load.snapshot
    /\ \E src \in {"fetch", "cached"} :
          /\ Load(src)
          /\ src = "cached" \/ last_load.src = "fetch"

\* C3 as stated: a second load() in succession yields the ComplianceView
\* of the first.
C3_LoadIdempotent == [][SecondLoad => View' = View]_vars

\* C4 as stated: while the identity is not registered, get_status is
\* UNKNOWN for every product and get_system_status_id is UNKNOWN.
C4_UnregisteredUnknown ==
    ~registered =>
        /\ \A p \in Pids : get_status(p) = UNKNOWN
        /\ get_system_status_id = UNKNOWN

C6_SnapshotOnNotify ==
    /\ \A o \in Observers : invoked[o] <= 1
    /\ Done \subseteq at_start
    /\ ~in_notify => Done = at_start

\* C6 witness: a notify() is over in which an observer was removed before
\* its turn and was invoked all the same, and one added meanwhile was not.
C6_Witness ==
    /\ ~in_notify
    /\ \E o \in removed_pending : invoked[o] = 1 /\ o \notin callbacks
    /\ \E n \in callbacks \ at_start : invoked[n] = 0

\* C7 as stated: after a load() that parsed a snapshot, compliant_until is
\* the server's compliantUntil less one second plus 24 hours, and absent
\* when the server's is null.
C7_CompliantUntilPlusDay ==
    (fresh /\ last_load.snapshot) =>
        compliant_until =
            IF server.compliantUntil = None
            THEN None
            ELSE Some(parse_date(server.compliantUntil[1]) - 1 + 24 * 3600)

\* C8: a load() of an unregistered system ends with the system status
\* UNKNOWN, the five buckets, the partial stacks and the valid certificates
\* empty, and calls the status source not once.
C8_UnregisteredLoad ==
    ~last_load.registered =>
        /\ system_status = UNKNOWN
        /\ valid_products = {} /\ partially_valid_products = {}
        /\ expired_products = NoCerts /\ future_products = NoCerts
        /\ unentitled_products = {} /\ partial_stacks = {}
        /\ valid_entitlement_certs = <<>>
        /\ last_load.calls = 0

\* C8 witness: the latest load() ran unregistered on a manager that had
\* parsed a snapshot before.
C8_Witness == ~last_load.registered /\ fresh /\ status # None /\ has_compliant_until

\* C9: is_valid() is true exactly when the system status is VALID or
\* DISABLED; in particular it is false after a load() that parsed no
\* snapshot.
C9_IsValidIffValidOrDisabled ==
    /\ is_valid <=> get_system_status_id \in {VALID, DISABLED}
    /\ ~last_load.snapshot => ~is_valid

\* C9 witness: a load() took the label "disabled" from the server.
C9_Witness == last_load.snapshot /\ get_system_status_id = DISABLED /\ is_valid

\* The buckets in the order of the claim, each with its status.
Precedence ==
    <<<<PartialKeys, PARTIALLY_SUBSCRIBED>>, <<ValidKeys, SUBSCRIBED>>,
      <<FutureKeys, FUTURE_SUBSCRIBED>>, <<ExpiredKeys, EXPIRED>>,
      <<UnentitledKeys, NOT_SUBSCRIBED>>>>

\* The positions in Precedence of the buckets that hold p.
Holding(p) == {i \in DOMAIN Precedence : p \in Precedence[i][1]}

\* C10: on a registered system get_status(p) is the status of the first
\* bucket, in the order partially valid, valid, future, expired,
\* unentitled, that holds p, and UNKNOWN exactly when none holds it.
C10_StatusPrecedence ==
    registered =>
        \A p \in Pids :
            /\ Holding(p) = {} <=> get_status(p) = UNKNOWN
            /\ Holding(p) # {} =>
                  \E i \in Holding(p) :
                      /\ \A j \in Holding(p) : i <= j
                      /\ get_status(p) = Precedence[i][2]

\* C10 witness: a product in two buckets is answered by the earlier one.
C10_Witness ==
    /\ registered
    /\ \E p \in PartialKeys \cap ValidKeys : get_status(p) = PARTIALLY_SUBSCRIBED

\* C11 as stated: after a load() that parsed a snapshot the system status is
\* the non-empty label of the server's answer; without one it is INVALID
\* when the server's nonCompliantProducts is non-empty, else PARTIAL when
\* the partially compliant products, the partial stacks or the reasons are
\* non-empty, else UNKNOWN; on the first load() and on every later one.
C11_SystemStatusDerivation ==
    last_load.snapshot =>
        system_status =
            IF server.status # NoKey /\ server.status # ""
            THEN server.status
            ELSE IF server.nonCompliantProducts # <<>>
            THEN INVALID
            ELSE IF \/ server.partiallyCompliantProducts # {}
                    \/ server.partialStacks # {}
                    \/ ServerReasons(server) # <<>>
            THEN PARTIAL
            ELSE UNKNOWN

\* The products the server declares non-compliant that are installed.
InstalledNonCompliant == Range(server.nonCompliantProducts) \cap product_dir

\* A load() has just parsed a snapshot whose status label is "invalid".
LoadedInvalid ==
    /\ registered /\ fresh /\ last_load.snapshot
    /\ server.status = INVALID

\* C12 as stated: after a load() of a snapshot with the status "invalid",
\* every installed product of its nonCompliantProducts has the status
\* NOT_SUBSCRIBED and the system status is INVALID, whatever the
\* entitlement certificates are.
C12_InvalidNotSubscribed ==
    LoadedInvalid =>
        \A p \in InstalledNonCompliant :
            /\ get_status(p) = NOT_SUBSCRIBED
            /\ get_system_status_id = INVALID

\* C12 as amended: after such a load() the system status is INVALID
\* whatever the entitlement certificates are, and an installed product of
\* nonCompliantProducts has the status NOT_SUBSCRIBED when the server
\* lists it neither as compliant nor as partially compliant and every
\* certificate that covers it is valid now (none begins after now, none
\* ended before now).
C12_InvalidNotSubscribedUnlessCovered ==
    LoadedInvalid =>
        \A p \in InstalledNonCompliant :
            /\ get_system_status_id = INVALID
            /\ (/\ p \notin server.compliantProducts
                /\ p \notin server.partiallyCompliantProducts
                /\ \A i \in DOMAIN ent_certs :
                      Covers(ent_certs[i], p) =>
                          ~(ent_certs[i].begin > now) /\ ~(ent_certs[i].end < now))
               => get_status(p) = NOT_SUBSCRIBED

\* C12 witness: such a product is NOT_SUBSCRIBED although a certificate
\* that is valid now covers it.
C12_Witness ==
    /\ LoadedInvalid
    /\ \E p \in InstalledNonCompliant :
          /\ get_status(p) = NOT_SUBSCRIBED
          /\ \E i \in DOMAIN ent_certs : Covers(ent_certs[i], p)

\* The server's answer names p in none of its product lists.
InNoServerBucket(p) ==
    /\ p \notin server.compliantProducts
    /\ p \notin server.partiallyCompliantProducts
    /\ p \notin Range(server.nonCompliantProducts)

\* The certificates of the entitlement directory that cover p.
Covering(p) == {i \in DOMAIN ent_certs : Covers(ent_certs[i], p)}

\* A load() of a registered system has just parsed a snapshot.
LoadedSnapshot == registered /\ fresh /\ last_load.snapshot

\* What C13 says of the product p.
FutureOrExpired(p) ==
    /\ (\E i \in Covering(p) : ent_certs[i].begin > now)
          => get_status(p) = FUTURE_SUBSCRIBED
    /\ (Covering(p) # {} /\ \A i \in Covering(p) : ent_certs[i].end < now)
          => get_status(p) = EXPIRED

\* C13 as stated: after a load() that parsed a snapshot, every product in
\* no server bucket that a certificate beginning after the current instant
\* covers is FUTURE_SUBSCRIBED, and one covered only by certificates that
\* ended before the current instant is EXPIRED.
C13_FutureAndExpired ==
    LoadedSnapshot =>
        \A p \in Pids : InNoServerBucket(p) => FutureOrExpired(p)

\* C13 as amended: the same of every such product that is installed; the
\* current instant is the clock's, whatever on_date the manager has.
C13_FutureAndExpiredInstalled ==
    LoadedSnapshot =>
        \A p \in product_dir : InNoServerBucket(p) => FutureOrExpired(p)

\* C13 witness: a manager constructed for a date at which the certificate
\* of an installed product has begun reports it FUTURE_SUBSCRIBED, since
\* the certificate begins after the current instant.
C13_Witness ==
    /\ LoadedSnapshot
    /\ on_date # None
    /\ \E p \in product_dir :
          /\ InNoServerBucket(p)
          /\ get_status(p) = FUTURE_SUBSCRIBED
          /\ \E i \in Covering(p) :
                ent_certs[i].begin > now /\ ent_certs[i].begin <= on_date[1]

\* C14: when a force_cert_check() is over, each observer that was
\* registered when it was called has been invoked exactly once if at least
\* one watch reported a change, however many did; if none did, no observer
\* has been invoked and no load() has run.
C14_OneNotificationPerCheck ==
    (check # None /\ ~in_notify) =>
        LET c == check[1]
        IN  /\ c.updated # {} =>
                  \A o \in Observers : invoked[o] = IF o \in c.registered THEN 1 ELSE 0
            /\ c.updated = {} =>
                  /\ \A o \in Observers : invoked[o] = 0
                  /\ c.loads = 0

\* C14 witness: a force_cert_check() that found two watches changed is
\* over and has invoked the two observers registered once each.
C14_Witness ==
    /\ check # None /\ ~in_notify
    /\ Cardinality(check[1].updated) >= 2
    /\ Cardinality(check[1].registered) >= 2
    /\ \A o \in check[1].registered : invoked[o] = 1

\* C14 witness of the other case: a force_cert_check() found nothing changed
\* while observers were registered.
C14_WitnessNoChange ==
    check # None /\ check[1].updated = {} /\ check[1].registered # {}

\* C15: the observers are a set: add_callback of a registered observer
\* leaves the set as it is, and no notify() invokes an observer twice;
\* remove_callback of a registered observer returns True and takes it out
\* of the set, remove_callback of any other returns False and leaves the
\* set as it is.
C15_ObserverSet ==
    /\ [](\A o \in Observers : invoked[o] <= 1)
    /\ [][\A cb \in Observers :
            /\ AddCallback(cb) =>
                  /\ cb \in callbacks'
                  /\ Cardinality(callbacks') =
                        Cardinality(callbacks) + (IF cb \in callbacks THEN 0 ELSE 1)
            /\ RemoveCallback(cb) =>
                  IF cb \in callbacks
                  THEN /\ remove_ret' = Some(TRUE)
                       /\ cb \notin callbacks'
                       /\ callbacks' \cup {cb} = callbacks
                  ELSE /\ remove_ret' = Some(FALSE)
                       /\ callbacks' = callbacks]_vars

\* C15 witness: a remove_callback has returned False and left observers
\* registered, one of which a notify() then invoked once.
C15_Witness ==
    /\ remove_ret = Some(FALSE)
    /\ \E o \in callbacks : invoked[o] = 1

\* The places <<g, j>> at which the certificate c stands in the groups.
PlacesOf(c) ==
    {<<g, j>> \in (DOMAIN groups) \X (1..Len(entitlements)) :
        j \in DOMAIN groups[g].entitlements /\ groups[g].entitlements[j].id = c.id}

\* The group the certificate c stands in.
GroupOf(c) == CHOOSE g \in DOMAIN groups : \E j \in 1..Len(entitlements) : <<g, j>> \in PlacesOf(c)

\* The first certificate of the input with the stacking id of c.
FirstWithKey(c) ==
    entitlements[CHOOSE i \in DOMAIN entitlements :
        /\ entitlements[i].stacking_id = c.stacking_id
        /\ \A j \in 1..(i - 1) : entitlements[j].stacking_id # c.stacking_id]

\* C16: when StackingGroupSorter.__init__ is over, every certificate of the
\* input stands in exactly one group, once; one without a stacking key is
\* alone in its group; those with the same key stand in one group, which
\* has the name of the first of them; the groups are in the order of their
\* first members in the input, and the members of a group in input order.
C16_GroupsPartitionInput ==
    position > Len(entitlements) =>
        /\ \A i \in DOMAIN entitlements : Cardinality(PlacesOf(entitlements[i])) = 1
        /\ \A g \in DOMAIN groups : Len(groups[g].entitlements) >= 1
        /\ \A i \in DOMAIN entitlements :
              entitlements[i].stacking_id = "" =>
                  Len(groups[GroupOf(entitlements[i])].entitlements) = 1
        /\ \A i, j \in DOMAIN entitlements :
              (entitlements[i].stacking_id # "" /\
               entitlements[i].stacking_id = entitlements[j].stacking_id) =>
                  /\ GroupOf(entitlements[i]) = GroupOf(entitlements[j])
                  /\ groups[GroupOf(entitlements[i])].name = FirstWithKey(entitlements[i]).name
        /\ \A g, h \in DOMAIN groups :
              g < h => groups[g].entitlements[1].id < groups[h].entitlements[1].id
        /\ \A g \in DOMAIN groups :
              \A j, k \in DOMAIN groups[g].entitlements :
                  j < k => groups[g].entitlements[j].id < groups[g].entitlements[k].id

\* C16 witness: the sorter is over for a list in which a certificate without
\* a key stands between two of one key, whose names differ.
C16_Witness ==
    /\ position > Len(entitlements)
    /\ \E g \in DOMAIN groups :
          /\ Len(groups[g].entitlements) = 2
          /\ groups[g].entitlements[2].id = groups[g].entitlements[1].id + 2
          /\ groups[g].entitlements[2].name # groups[g].name
    /\ \E i \in DOMAIN entitlements : entitlements[i].stacking_id = ""

\* C17: from the moment a force_cert_check() that found a change enters
\* notify(), hence whenever one of its observers runs, a load() has run for
\* every watch that changed, and the view is that of a load() that saw the
\* directory of each such watch as the poll found it: the refresh of the
\* watch came before its load(), and every load() before the observers.
C17_RefreshThenLoadThenNotify ==
    (check # None /\ check[1].updated # {}) =>
        LET c == check[1]
        IN  /\ c.loads = Cardinality(c.updated)
            /\ fresh
            /\ "product" \in c.updated =>
                  /\ product_dir = c.disk.products
                  /\ installed_products = c.disk.products
            /\ "entitlement" \in c.updated =>
                  /\ ent_certs = c.disk.certs
                  /\ last_load.snapshot =>
                        valid_entitlement_certs = ValidEntitlementCerts(c.disk.certs, now)
            /\ "consumer" \in c.updated =>
                  /\ registered = c.disk.identity
                  /\ last_load.registered = c.disk.identity

\* C17 witness: an observer runs in a force_cert_check() that found a new
\* product and a new entitlement certificate, and the view holds both.
C17_Witness ==
    /\ check # None /\ in_notify
    /\ {"product", "entitlement"} \subseteq check[1].updated
    /\ \E o \in Observers : invoked[o] = 1
    /\ installed_products = {1}
    /\ valid_entitlement_certs = <<DiskCert>>

\* A step that is a load() that parsed no snapshot, registered or not.
LoadWithoutSnapshot ==
    /\ \E src \in {"fetch", "cached"} : Load(src)
    /\ ~last_load'.snapshot

\* C18 as stated: a load() leaves every component of the view as it was, or
\* leaves none: when it parsed no snapshot and reset the buckets and the
\* system status, no valid-until instant of an earlier load() is left.
C18_ViewNeverPartial ==
    [][LoadWithoutSnapshot => (View' = View \/ compliant_until' = None)]_vars

\* C19 as stated: the snapshot object a load() received, which the manager
\* keeps as self.status and the status source keeps to hand out again, has
\* in every field the content of the server's answer.
C19_SnapshotUnchanged ==
    /\ status # None => status[1] = server
    /\ cache # None => cache[1] = server

\* C20: a product the server lists in nonCompliantProducts that is not
\* installed is a key of none of the unentitled, expired and future
\* buckets; every key of these three buckets is an installed product.
C20_DriftSkipped ==
    /\ \A p \in Range(server.nonCompliantProducts) \ product_dir :
          p \notin UnentitledKeys \cup ExpiredKeys \cup FutureKeys
    /\ UnentitledKeys \cup ExpiredKeys \cup FutureKeys \subseteq product_dir

\* C20 witness: a load() parsed a snapshot that lists as non-compliant a
\* product that is not installed and that an entitlement certificate which
\* is not valid now covers.
C20_Witness ==
    /\ last_load.snapshot
    /\ \E p \in Range(server.nonCompliantProducts) \ product_dir :
          \E i \in Covering(p) : ~CertIsValid(ent_certs[i], now)

\* C21 as stated: after a load() that parsed a snapshot outside SCA mode,
\* every installed product in none of the server's three lists is in the
\* unentitled bucket; after one in SCA mode, every product of the
\* unentitled bucket is in the server's nonCompliantProducts.
C21_UnreportedUnentitled ==
    last_load.snapshot =>
        IF ~last_load.sca
        THEN \A p \in product_dir : InNoServerBucket(p) => p \in UnentitledKeys
        ELSE \A p \in UnentitledKeys : p \in Range(server.nonCompliantProducts)

\* C22: no product the server declared compliant or partially compliant
\* is a key of the future or of the expired bucket, whatever entitlement
\* certificates cover it.
C22_ServerPrecedence ==
    \A p \in server.compliantProducts \cup server.partiallyCompliantProducts :
        future_products[p] = <<>> /\ expired_products[p] = <<>>

\* C22 witness: a load() parsed a snapshot that declares partially
\* compliant an installed product covered by a certificate that begins
\* after the current instant, and the product is PARTIALLY_SUBSCRIBED.
C22_Witness ==
    /\ LoadedSnapshot
    /\ \E p \in server.partiallyCompliantProducts \cap product_dir :
          /\ \E i \in Covering(p) : ent_certs[i].begin > now
          /\ get_status(p) = PARTIALLY_SUBSCRIBED

====
